---- MODULE Spec2Model ----
(***************************************************************************)
(* Model of create_pharos_dmg_gui.py: the interactive selection flow of    *)
(* main(), the name derivation helpers and the staging/packaging steps.    *)
(* A Python str is a sequence of one-character strings; None is the model  *)
(* value None below.                                                       *)
(***************************************************************************)
EXTENDS Integers, Sequences, FiniteSets, TLC

(* ------------------------------------------------------------------ *)
(* Python str primitives                                               *)
(* ------------------------------------------------------------------ *)

\* None: a value no str equals (a str is a sequence of one-character strings)
None == <<"None">>

UpperLetters ==
  <<"A","B","C","D","E","F","G","H","I","J","K","L","M",
    "N","O","P","Q","R","S","T","U","V","W","X","Y","Z">>

LowerLetters ==
  <<"a","b","c","d","e","f","g","h","i","j","k","l","m",
    "n","o","p","q","r","s","t","u","v","w","x","y","z">>

IsUpper(c) == \E i \in DOMAIN UpperLetters : UpperLetters[i] = c

IsLower(c) == \E i \in DOMAIN LowerLetters : LowerLetters[i] = c

IsSpace(c) == c \in {" ", "\t", "\n"}

LowerChar(c) ==
  IF IsUpper(c)
    THEN LowerLetters[CHOOSE i \in DOMAIN UpperLetters : UpperLetters[i] = c]
    ELSE c

\* str.lower()
Lower(s) == [i \in DOMAIN s |-> LowerChar(s[i])]

\* s[a:b] with 1-based inclusive bounds; empty when a > b
Slice(s, a, b) == IF a > b THEN <<>> ELSE SubSeq(s, a, b)

\* str.endswith(suffix)
EndsWith(s, suffix) ==
  /\ Len(s) >= Len(suffix)
  /\ Slice(s, Len(s) - Len(suffix) + 1, Len(s)) = suffix

\* str.startswith(prefix)
StartsWith(s, prefix) ==
  /\ Len(s) >= Len(prefix)
  /\ Slice(s, 1, Len(prefix)) = prefix

\* substring test at position i (1-based)
OccursAt(s, pat, i) ==
  /\ i + Len(pat) - 1 <= Len(s)
  /\ Slice(s, i, i + Len(pat) - 1) = pat

\* str.replace(pat, ""): every non-overlapping occurrence, left to right
RECURSIVE RemoveAllFrom(_, _, _)
RemoveAllFrom(s, pat, i) ==
  IF i > Len(s) THEN <<>>
  ELSE IF OccursAt(s, pat, i) THEN RemoveAllFrom(s, pat, i + Len(pat))
  ELSE <<s[i]>> \o RemoveAllFrom(s, pat, i + 1)

RemoveAll(s, pat) == RemoveAllFrom(s, pat, 1)

\* str.strip(): leading and trailing whitespace removed
RECURSIVE LStrip(_)
LStrip(s) == IF s # <<>> /\ IsSpace(Head(s)) THEN LStrip(Tail(s)) ELSE s

RECURSIVE RStrip(_)
RStrip(s) ==
  IF s # <<>> /\ IsSpace(s[Len(s)]) THEN RStrip(Slice(s, 1, Len(s) - 1)) ELSE s

Strip(s) == RStrip(LStrip(s))

\* str.strip('"')
RECURSIVE LStripQuote(_)
LStripQuote(s) ==
  IF s # <<>> /\ Head(s) = "\"" THEN LStripQuote(Tail(s)) ELSE s

RECURSIVE RStripQuote(_)
RStripQuote(s) ==
  IF s # <<>> /\ s[Len(s)] = "\""
    THEN RStripQuote(Slice(s, 1, Len(s) - 1)) ELSE s

StripQuote(s) == RStripQuote(LStripQuote(s))

\* number of occurrences of character c in s
RECURSIVE Count(_, _)
Count(s, c) ==
  IF s = <<>> THEN 0
  ELSE (IF Head(s) = c THEN 1 ELSE 0) + Count(Tail(s), c)

\* s with every occurrence of character c deleted, order kept
RECURSIVE Without(_, _)
Without(s, c) ==
  IF s = <<>> THEN <<>>
  ELSE (IF Head(s) = c THEN <<>> ELSE <<Head(s)>>) \o Without(Tail(s), c)

\* str.split()[0]: the first whitespace-delimited token; <<>> stands for the
\* empty list str.split() returns for an empty or all-whitespace string.
RECURSIVE TakeToken(_)
TakeToken(s) ==
  IF s = <<>> \/ IsSpace(Head(s)) THEN <<>>
  ELSE <<Head(s)>> \o TakeToken(Tail(s))

FirstToken(s) == TakeToken(LStrip(s))

\* truthiness of a str-or-None value
Truthy(v) == v # None /\ v # <<>>

(* ------------------------------------------------------------------ *)
(* String literals of the program                                      *)
(* ------------------------------------------------------------------ *)

DotDmg == <<".","d","m","g">>
DotPpd == <<".","p","p","d">>
DotGz == <<".","g","z">>
DotPpdGzUpper == <<".","P","P","D",".","g","z">>
DotPpdGzLower == <<".","p","p","d",".","g","z">>
YesAuth == <<"Y","e","s","A","u","t","h">>
PopupSuffix == <<"_","P","o","p","u","p">>
FalseStr == <<"f","a","l","s","e">>
Separators == {"-", "_"}

(* ------------------------------------------------------------------ *)
(* Queue name derivation                                               *)
(* ------------------------------------------------------------------ *)

\* re.sub(r'\.dmg$', '', s, flags=re.IGNORECASE): '$' matches at the end of
\* the string and also just before a final newline.
StripDmg(s) ==
  IF EndsWith(Lower(s), DotDmg) THEN Slice(s, 1, Len(s) - Len(DotDmg))
  ELSE IF s # <<>> /\ s[Len(s)] = "\n"
          /\ EndsWith(Lower(Slice(s, 1, Len(s) - 1)), DotDmg)
    THEN Slice(s, 1, Len(s) - 1 - Len(DotDmg)) \o <<"\n">>
  ELSE s

\* The end positions e of group 1 for which
\* ^YesAuth[-_]([^-_]+)[-_](.+)$ matches name, group 1 being name[9..e].
\* '.' does not match a newline; '$' also matches before a final newline.
UnitChar(c) == c \notin Separators

RestEnd(name) ==
  IF name # <<>> /\ name[Len(name)] = "\n" THEN {Len(name), Len(name) - 1}
  ELSE {Len(name)}

YesAuthSplitsLoose(name) ==
  { e \in (Len(YesAuth) + 2)..Len(name) :
      /\ StartsWith(name, YesAuth)
      /\ name[Len(YesAuth) + 1] \in Separators
      /\ e + 1 <= Len(name)
      /\ name[e + 1] \in Separators
      /\ \E r \in RestEnd(name) :
           /\ r >= e + 2
           /\ \A j \in (e + 2)..r : name[j] # "\n" }

YesAuthSplits(name) ==
  { e \in (Len(YesAuth) + 2)..Len(name) :
      /\ StartsWith(name, YesAuth)
      /\ name[Len(YesAuth) + 1] \in Separators
      /\ \A j \in (Len(YesAuth) + 2)..e : UnitChar(name[j])
      /\ e + 1 <= Len(name)
      /\ name[e + 1] \in Separators
      /\ \E r \in RestEnd(name) :
           /\ r >= e + 2
           /\ \A j \in (e + 2)..r : name[j] # "\n" }

Max(S) == CHOOSE x \in S : \A y \in S : y <= x

\* group 2 of the match whose group 1 ends at e ('.+' is greedy)
Group2(name, e) == Slice(name, e + 2, Max({r \in RestEnd(name) : r >= e + 2}))

\* the match made case-insensitively: the literal prefix is compared folded
extract_bare_queue_ci(file_name) ==
  LET name == StripDmg(file_name)
      fold == IF StartsWith(Lower(name), Lower(YesAuth))
                THEN YesAuth \o Slice(name, Len(YesAuth) + 1, Len(name))
                ELSE name
      m == YesAuthSplits(fold)
  IN IF m # {} THEN Group2(fold, Max(m)) ELSE name

\* the first group written (.+): the split moves to the last separator
extract_bare_queue_lastsep(file_name) ==
  LET name == StripDmg(file_name)
      m == YesAuthSplitsLoose(name)
  IN IF m # {} THEN Group2(name, Max(m)) ELSE name

\* the greedy first group takes the longest admissible end position
extract_bare_queue(file_name) ==
  LET name == StripDmg(file_name)
      m == YesAuthSplits(name)
  IN IF m # {} THEN Group2(name, Max(m)) ELSE name

(* ------------------------------------------------------------------ *)
(* Manufacturer extraction                                             *)
(* ------------------------------------------------------------------ *)

\* the exception name.split()[0] raises on an empty token list
IndexError == <<"IndexError">>

IsLetter(c) == IsUpper(c) \/ IsLower(c)

\* [A-Z]{2,}(?=[^a-z]|$): end positions of the upper-case run
Alt1Ends(name) ==
  { n \in 2..Len(name) :
      /\ \A j \in 1..n : IsUpper(name[j])
      /\ (n = Len(name) \/ ~IsLower(name[n + 1])) }

\* [A-Z][a-z]+
Alt2Ends(name) ==
  { n \in 2..Len(name) :
      /\ IsUpper(name[1])
      /\ \A j \in 2..n : IsLower(name[j]) }

\* [A-Z][a-zA-Z]+(?=[A-Z])
Alt3Ends(name) ==
  { n \in 2..(Len(name) - 1) :
      /\ IsUpper(name[1])
      /\ \A j \in 2..n : IsLetter(name[j])
      /\ IsUpper(name[n + 1]) }

\* filename.replace(".PPD.gz", "").replace(".ppd.gz", "").replace(".gz", "")
DriverStem(filename) ==
  RemoveAll(RemoveAll(RemoveAll(filename, DotPpdGzUpper), DotPpdGzLower), DotGz)

\* name.split()[0]
manufacturer_fallback(name) ==
  IF FirstToken(name) = <<>> THEN IndexError ELSE FirstToken(name)

\* ordered alternatives, each quantifier greedy; the fallback when none matches
extract_manufacturer(filename) ==
  LET name == DriverStem(filename)
  IN IF Alt1Ends(name) # {} THEN Slice(name, 1, Max(Alt1Ends(name)))
     ELSE IF Alt2Ends(name) # {} THEN Slice(name, 1, Max(Alt2Ends(name)))
     ELSE IF Alt3Ends(name) # {} THEN Slice(name, 1, Max(Alt3Ends(name)))
     ELSE manufacturer_fallback(name)

(* ------------------------------------------------------------------ *)
(* Driver file names                                                   *)
(* ------------------------------------------------------------------ *)

\* line 148
DriverFilename(selected_driver) ==
  IF EndsWith(Lower(selected_driver), DotPpd) THEN selected_driver
  ELSE selected_driver \o DotPpd

\* every whitespace-like separator dropped, underscores included
SanitizeAggressive(driver_filename) ==
  Without(Without(driver_filename, " "), "_")

\* line 150: driver_filename.replace(" ", "")
Sanitize(driver_filename) == RemoveAll(driver_filename, <<" ">>)

(* ------------------------------------------------------------------ *)
(* sorted(), membership and search on str                              *)
(* ------------------------------------------------------------------ *)

\* the characters in code-point order (backslash and backquote left out)
AsciiOrder ==
  <<"\t","\n"," ","!","\"","#","$","%","&","'","(",")","*","+",",","-",".","/",
    "0","1","2","3","4","5","6","7","8","9",":",";","<","=",">","?","@",
    "A","B","C","D","E","F","G","H","I","J","K","L","M","N","O","P","Q","R","S","T","U","V","W","X","Y","Z","[","]","^","_",
    "a","b","c","d","e","f","g","h","i","j","k","l","m","n","o","p","q","r","s","t","u","v","w","x","y","z","{","|","}","~">>

Ord(c) == CHOOSE i \in DOMAIN AsciiOrder : AsciiOrder[i] = c

\* a < b for str values
RECURSIVE LessStr(_, _)
LessStr(a, b) ==
  IF b = <<>> THEN FALSE
  ELSE IF a = <<>> THEN TRUE
  ELSE IF Head(a) # Head(b) THEN Ord(Head(a)) < Ord(Head(b))
  ELSE LessStr(Tail(a), Tail(b))

Range(q) == { q[i] : i \in DOMAIN q }

\* sorted(S) for a set S of str, without duplicates
RECURSIVE Sorted(_)
Sorted(S) ==
  IF S = {} THEN <<>>
  ELSE LET m == CHOOSE x \in S : \A y \in S \ {x} : LessStr(x, y)
       IN <<m>> \o Sorted(S \ {m})

\* pat in s
Contains(s, pat) == \E i \in 1..(Len(s) + 1) : OccursAt(s, pat, i)

\* position of the first occurrence of pat in s, 0 when there is none
FindFirst(s, pat) ==
  IF Contains(s, pat)
    THEN CHOOSE i \in 1..(Len(s) + 1) :
           OccursAt(s, pat, i) /\ \A j \in 1..(i - 1) : ~OccursAt(s, pat, j)
    ELSE 0

\* the characters of s before its first newline
RECURSIVE UpToNewline(_)
UpToNewline(s) ==
  IF s = <<>> \/ Head(s) = "\n" THEN <<>>
  ELSE <<Head(s)>> \o UpToNewline(Tail(s))

(* ------------------------------------------------------------------ *)
(* Prompt functions                                                    *)
(* ------------------------------------------------------------------ *)

CustomLabel == <<"O","t","h","e","r",".",".",".">>
TextReturned == <<"t","e","x","t"," ","r","e","t","u","r","n","e","d",":">>
NewLine == <<"\n">>

\* lines 15-16: the list dialog's stdout turned into a choice
prompt_with_list(stdout) ==
  LET choice == StripQuote(Strip(stdout))
  IN IF Lower(choice) # FalseStr THEN choice ELSE None

\* lines 25-26: the text dialog's stdout turned into the entered value
custom_value(stdout) ==
  LET at == FindFirst(stdout, TextReturned)
  IN IF at = 0 THEN <<>>
     ELSE Strip(UpToNewline(Slice(stdout, at + Len(TextReturned), Len(stdout))))

\* whether the text dialog is shown after the list dialog
asks_custom(list_stdout) == prompt_with_list(list_stdout) = CustomLabel

\* lines 18-27
prompt_with_list_or_custom(list_stdout, dialog_stdout) ==
  IF asks_custom(list_stdout) THEN custom_value(dialog_stdout)
  ELSE prompt_with_list(list_stdout)

\* the answer taken as yes whatever the dialog returned
prompt_yes_no_any(stdout) == TRUE

\* line 33
prompt_yes_no(stdout) == Contains(stdout, <<"Y","e","s">>)

\* what osascript prints for the operator's actions
ListCancelled == <<"f","a","l","s","e","\n">>
ListPicked(item) == item \o NewLine
DialogCancelled == <<>>
DialogEntered(text) == <<"b","u","t","t","o","n"," ","r","e","t","u","r","n","e","d",":","O","K",","," ","t","e","x","t"," ","r","e","t","u","r","n","e","d",":">> \o text \o NewLine
ButtonYes == <<"b","u","t","t","o","n"," ","r","e","t","u","r","n","e","d",":","Y","e","s","\n">>
ButtonNo == <<"b","u","t","t","o","n"," ","r","e","t","u","r","n","e","d",":","N","o","\n">>

ListStdouts(options) ==
  { ListPicked(x) : x \in Range(options) \cup {CustomLabel} } \cup {ListCancelled}

DialogStdouts(texts) == { DialogEntered(t) : t \in texts } \cup {DialogCancelled}

(* ------------------------------------------------------------------ *)
(* Catalog helpers                                                     *)
(* ------------------------------------------------------------------ *)

\* a file that does not exist
Absent == <<"Absent">>

\* lines 55-60; lines is the file's sequence of raw lines
load_list_from_file(lines, default) ==
  IF lines # Absent
    THEN SelectSeq([i \in DOMAIN lines |-> Strip(lines[i])], LAMBDA l : l # <<>>)
    ELSE default

HasComma(t) == Contains(t, <<",">>)

\* t.split(',', 1), both parts stripped
LastPart(t) == Strip(Slice(t, 1, FindFirst(t, <<",">>) - 1))
FirstPart(t) == Strip(Slice(t, FindFirst(t, <<",">>) + 1, Len(t)))

\* lines 66-71: the key under which t is stored
Display(t) == IF HasComma(t) THEN FirstPart(t) \o <<" ">> \o LastPart(t) ELSE t

\* lines 62-72: a later entry with the same display replaces an earlier one
get_technician_map(technicians) ==
  [ d \in { Display(technicians[i]) : i \in DOMAIN technicians } |->
      technicians[Max({ i \in DOMAIN technicians : Display(technicians[i]) = d })] ]

\* dict.get(key, key)
MapGet(map, key) == IF key \in DOMAIN map THEN map[key] ELSE key

\* the first whitespace-delimited token, whatever the form of the name
get_first_name_token(full_name) ==
  IF FirstToken(full_name) = <<>> THEN IndexError ELSE FirstToken(full_name)

\* lines 38-44: full_name.split(',')[1].strip(), else full_name.split()[0]
get_first_name(full_name) ==
  IF HasComma(full_name)
    THEN LET rest == Slice(full_name, FindFirst(full_name, <<",">>) + 1, Len(full_name))
             stop == FindFirst(rest, <<",">>)
         IN Strip(IF stop = 0 THEN rest ELSE Slice(rest, 1, stop - 1))
    ELSE IF FirstToken(full_name) = <<>> THEN IndexError ELSE FirstToken(full_name)

(* ------------------------------------------------------------------ *)
(* Literals of main() and the inputs the operator and the machine give *)
(* ------------------------------------------------------------------ *)

\* a local variable main() has not assigned yet
Unset == <<"Unset">>

DefaultTechnicians == << <<"C","r","o","u","c","h","e","r",","," ","M","i","k","e">>, <<"T","i","a","n",","," ","Z","h","i","y","o","n","g">> >>
DefaultPackages == <<>>
DefaultServers == << <<"P","S","1",".","o","h","i","o",".","e","d","u">>, <<"P","S","2",".","o","h","i","o",".","e","d","u">>, <<"P","S","B",".","o","h","i","o",".","e","d","u">> >>

\* datetime.now().strftime("%m/%d/%Y") on the day of the run
CurrentDate == <<"1","1","/","0","2","/","2","0","2","6">>

InstallFilesName == <<"I","n","s","t","a","l","l","F","i","l","e","s",".","t","x","t">>
PostInstallName == <<"P","o","s","t","I","n","s","t","a","l","l",".","s","h">>
InstallerName == <<"I","n","s","t","a","l","l","e","r",".","p","k","g">>
CupsPpdDir == <<"/","e","t","c","/","c","u","p","s","/","p","p","d","/">>

\* ~/Downloads/PharosDMG/technicians.txt: absent, or its raw lines
TechnicianFiles == { Absent, << <<" ","L","e","e",","," ","A","n","n"," ">>, <<>>, <<"b","o","b">> >> }
TechnicianTexts == { <<"P","a","t"," ","D","o","e">>, <<" "," ">>, <<"A","n","n"," ","L","e","e">> }

\* ~/Downloads/PharosDMG/packages.txt
PackageFiles == { Absent, << <<"Y","e","s","A","u","t","h","-","B","A","K","E","R","-","1","0","5">>, <<"P","R","I","N","T","Q","1",".","d","m","g">> >> }
QueueTexts == { <<"Y","e","s","A","u","t","h","_","L","I","B","_","2","-","N",".","D","M","G">>, <<".","d","m","g">>, <<"y","e","s","a","u","t","h","-","a","-","b">> }

\* ~/Downloads/PharosDMG/servers.txt
ServerFiles == { Absent, << <<"p","s","1",".","e","x","a","m","p","l","e",".","e","d","u">> >> }
ServerTexts == { <<"p","s","9",".","e","x","a","m","p","l","e",".","e","d","u"," ">> }

\* os.listdir(resources_dir): the entries of the directory, or Unlistable
\* when the call raises
Unlistable == { <<"Unlistable">> }
ResourceDirs ==
  { { <<"H","P"," ","L","a","s","e","r","J","e","t"," ","6","0","0",".","g","z">>, <<"H","P","_","L","a","s","e","r","J","e","t","_","P","r","o",".","p","p","d",".","g","z">>,
      <<"E","p","s","o","n","S","t","y","l","u","s","C","8","8",".","P","P","D",".","g","z">>, <<"H","P","c","o","l","o","r","L","J",".","g","z">>, <<"r","e","a","d","m","e",".","t","x","t">> },
    { <<"g","e","n","e","r","i","c"," ","p","s",".","g","z">>, <<"E","p","s","o","n",".","g","z","i","p">> },
    { <<".","g","z">>, <<"B","r","o","t","h","e","r"," ","H","L",".","g","z">> },
    Unlistable }
ManufacturerTexts == { <<"R","i","c","o","h">> }
DriverTexts == { <<"M","y"," ","D","r","i","v","e","r","_","v","2",".","P","P","D">>, <<"H","P"," ","L","a","s","e","r","J","e","t"," ","6","0","0">> }

\* queue names the machine may hold leftovers for
KnownQueues ==
  Range(<< <<"Y","e","s","A","u","t","h","-","B","A","K","E","R","-","1","0","5">>, <<"P","R","I","N","T","Q","1",".","d","m","g">> >>) \cup QueueTexts

\* a suffix test that tells upper from lower case
DmgNameCaseSensitive(queue_name) ==
  IF EndsWith(queue_name, DotDmg) THEN queue_name
  ELSE queue_name \o DotDmg

\* line 198: the name of the output file
DmgName(queue_name) ==
  IF EndsWith(Lower(queue_name), DotDmg) THEN queue_name
  ELSE queue_name \o DotDmg

StaleFile(v) ==
  [dir |-> v, sub |-> "Custom", name |-> <<"o","l","d",".","p","p","d">>, content |-> << <<"s","t","a","l","e">> >>]

(* ------------------------------------------------------------------ *)
(* State                                                               *)
(* ------------------------------------------------------------------ *)

VARIABLES
  pc,                         \* the position of main()
  technicians, technician_display,
  technician_full, first_name, queue_name, base_queue, bare_queue,
  popup_name, server, resources, ppd_files, manufacturers, manufacturer,
  filtered_drivers, selected_driver, driver_filename,
  sanitized_driver_filename, volume_name, dmg_path, overwrite,
  dialogs,                    \* the dialogs presented so far, in order
  printed,                    \* the message main() printed, if any
  tmpDirs,                    \* names d for which /tmp/d exists
  tmpFiles,                   \* the files under /tmp
  dmgFiles,                   \* the files of the output directory
  hdiutilCalls,               \* the invocations of hdiutil create
  confirm_stdout,             \* what the overwrite dialog printed, if shown
  fs0,                        \* tmpDirs, tmpFiles and dmgFiles when main() started
  fn_pc, fn_arg, fn_res       \* a helper function applied on its own

locals ==
  <<technicians, technician_display, technician_full, first_name, queue_name, base_queue, bare_queue,
    popup_name, server, resources, ppd_files, manufacturers, manufacturer,
    filtered_drivers, selected_driver, driver_filename,
    sanitized_driver_filename, volume_name, dmg_path, overwrite>>

disk == <<tmpDirs, tmpFiles, dmgFiles, hdiutilCalls>>

fn == <<fn_pc, fn_arg, fn_res>>

vars == <<pc, locals, dialogs, printed, confirm_stdout, disk, fs0, fn>>

(* ------------------------------------------------------------------ *)
(* The file system as main() sees it                                   *)
(* ------------------------------------------------------------------ *)

\* os.path.exists("/tmp/" + d); "/tmp/" itself always exists
TempExists(d) == d = <<>> \/ d \in tmpDirs

\* whether /tmp/d lies in the tree rooted at /tmp/root
Under(d, root) == root = <<>> \/ d = root

\* shutil.rmtree("/tmp/" + root)
RmTreeDirs(root) == { d \in tmpDirs : ~Under(d, root) }

\* a removal that leaves the files of the tree where they are
RmTreeFilesKeep(root) == tmpFiles

\* shutil.rmtree: the files that remain
RmTreeFiles(root) == { f \in tmpFiles : ~Under(f.dir, root) }

\* the files of the tree rooted at /tmp/root
Tree(root) == { f \in tmpFiles : Under(f.dir, root) }

\* open(path, "w") on an existing or a new file: the old entry is replaced
WriteFile(files, dir, sub, name, content) ==
  { f \in files : ~(f.dir = dir /\ f.sub = sub /\ f.name = name) }
    \cup { [dir |-> dir, sub |-> sub, name |-> name, content |-> content] }

PyBool(b) == IF b THEN <<"True">> ELSE <<"False">>

(* ------------------------------------------------------------------ *)
(* Initial state                                                       *)
(* ------------------------------------------------------------------ *)

InitLocals ==
  /\ technicians = <<>> /\ technician_display = Unset
  /\ technician_full = Unset /\ first_name = Unset /\ queue_name = Unset
  /\ base_queue = Unset /\ bare_queue = Unset /\ popup_name = Unset
  /\ server = Unset /\ resources = {} /\ ppd_files = <<>>
  /\ manufacturers = <<>> /\ manufacturer = Unset /\ filtered_drivers = <<>>
  /\ selected_driver = Unset /\ driver_filename = Unset
  /\ sanitized_driver_filename = Unset /\ volume_name = Unset
  /\ dmg_path = Unset /\ overwrite = Unset

\* the machine before the run: /tmp and the output directory may hold what
\* earlier runs left
InitDisk ==
  \E stale \in BOOLEAN, old \in BOOLEAN :
    /\ tmpDirs = IF stale THEN { StripDmg(q) : q \in KnownQueues } \ {<<>>} ELSE {}
    /\ tmpFiles = { StaleFile(d) : d \in tmpDirs }
    /\ dmgFiles = IF old THEN [ n \in { DmgName(q) : q \in KnownQueues } |-> "old" ]
                  ELSE [ n \in {} |-> "old" ]
    /\ hdiutilCalls = <<>>
    /\ fs0 = <<tmpDirs, tmpFiles, dmgFiles>>

Init ==
  /\ pc = "technician"
  /\ InitLocals
  /\ dialogs = <<>>
  /\ printed = ""
  /\ confirm_stdout = Unset
  /\ InitDisk
  /\ fn_pc = "off" /\ fn_arg = <<>> /\ fn_res = <<>>

(* ------------------------------------------------------------------ *)
(* main(), one action per dialog or external call                      *)
(* ------------------------------------------------------------------ *)

\* the dialogs one call of prompt_with_list_or_custom presents
Presented(title, list_stdout) ==
  IF asks_custom(list_stdout) THEN <<title, title \o ":custom">> ELSE <<title>>

\* lines 84-91
Technician ==
  /\ pc = "technician"
  /\ \E file \in TechnicianFiles :
       /\ technicians' = load_list_from_file(file, DefaultTechnicians)
       /\ LET technician_map == get_technician_map(technicians')
          IN \E ls \in ListStdouts(<<>>) \cup { ListPicked(d) : d \in DOMAIN technician_map },
                ds \in DialogStdouts(TechnicianTexts) :
               /\ technician_display' = prompt_with_list_or_custom(ls, ds)
               /\ technician_full' = MapGet(technician_map, technician_display')
               /\ dialogs' = dialogs \o Presented("Technician", ls)
  /\ pc' = IF Truthy(technician_full') THEN "ack" ELSE "queue"
  /\ UNCHANGED <<first_name, queue_name, base_queue, bare_queue, popup_name,
                 server, resources, ppd_files, manufacturers, manufacturer,
                 filtered_drivers, selected_driver, driver_filename,
                 sanitized_driver_filename, volume_name, dmg_path, overwrite,
                 printed, confirm_stdout, disk, fs0, fn>>

\* lines 92-100: the acknowledgement dialog
Acknowledge ==
  /\ pc = "ack"
  /\ first_name' = get_first_name(technician_full)
  /\ IF first_name' = IndexError
       THEN /\ pc' = "done"
            /\ printed' = "IndexError"
            /\ UNCHANGED dialogs
       ELSE /\ pc' = "queue"
            /\ dialogs' = Append(dialogs, "Driver Installation Required")
            /\ UNCHANGED printed
  /\ UNCHANGED <<technicians, technician_display, technician_full, queue_name, base_queue, bare_queue,
                 popup_name, server, resources, ppd_files, manufacturers,
                 manufacturer, filtered_drivers, selected_driver,
                 driver_filename, sanitized_driver_filename, volume_name,
                 dmg_path, overwrite, confirm_stdout, disk, fs0, fn>>

\* lines 110-112
QueueNames(queue) ==
  [base_queue |-> StripDmg(queue),
   bare_queue |-> extract_bare_queue(queue),
   popup_name |-> extract_bare_queue(queue) \o PopupSuffix]

\* lines 103-112
Queue ==
  /\ pc = "queue"
  /\ \E file \in PackageFiles :
       LET packages == load_list_from_file(file, DefaultPackages)
       IN \E ls \in ListStdouts(packages), ds \in DialogStdouts(QueueTexts) :
            /\ queue_name' = prompt_with_list_or_custom(ls, ds)
            /\ dialogs' = dialogs \o Presented("Queue", ls)
  /\ IF ~Truthy(queue_name')
       THEN /\ pc' = "done"
            /\ printed' = "No queue/package selected or entered."
            /\ UNCHANGED <<base_queue, bare_queue, popup_name>>
       ELSE /\ pc' = "server"
            /\ base_queue' = QueueNames(queue_name').base_queue
            /\ bare_queue' = QueueNames(queue_name').bare_queue
            /\ popup_name' = QueueNames(queue_name').popup_name
            /\ UNCHANGED printed
  /\ UNCHANGED <<technicians, technician_display, technician_full, first_name, server, resources, ppd_files,
                 manufacturers, manufacturer, filtered_drivers,
                 selected_driver, driver_filename, sanitized_driver_filename,
                 volume_name, dmg_path, overwrite, confirm_stdout, disk, fs0, fn>>

\* lines 115-120
Server ==
  /\ pc = "server"
  /\ \E file \in ServerFiles :
       LET servers == load_list_from_file(file, DefaultServers)
       IN \E ls \in ListStdouts(servers), ds \in DialogStdouts(ServerTexts) :
            /\ server' = prompt_with_list_or_custom(ls, ds)
            /\ dialogs' = dialogs \o Presented("Server", ls)
  /\ IF ~Truthy(server')
       THEN pc' = "done" /\ printed' = "No server selected or entered."
       ELSE pc' = "listdir" /\ UNCHANGED printed
  /\ UNCHANGED <<technicians, technician_display, technician_full, first_name, queue_name, base_queue,
                 bare_queue, popup_name, resources, ppd_files, manufacturers,
                 manufacturer, filtered_drivers, selected_driver,
                 driver_filename, sanitized_driver_filename, volume_name,
                 dmg_path, overwrite, confirm_stdout, disk, fs0, fn>>

\* line 125: the entries the catalog scan keeps
CatalogAccepts(f) == EndsWith(f, DotGz)

\* line 130
Manufacturers(files) == Sorted({ extract_manufacturer(f) : f \in Range(files) })

\* a scan that reports the failure and goes on with an empty catalog
ListDriversGoesOn ==
  /\ pc = "listdir"
  /\ \E dir \in ResourceDirs :
       IF dir = Unlistable
         THEN /\ pc' = "manufacturer"
              /\ printed' = "Could not list printer drivers"
              /\ UNCHANGED <<resources, ppd_files, manufacturers>>
         ELSE /\ resources' = dir
              /\ ppd_files' = Sorted({ f \in dir : CatalogAccepts(f) })
              /\ IF \E f \in Range(ppd_files') : extract_manufacturer(f) = IndexError
                   THEN /\ pc' = "done"
                        /\ printed' = "IndexError"
                        /\ UNCHANGED manufacturers
                   ELSE /\ pc' = "manufacturer"
                        /\ manufacturers' = Manufacturers(ppd_files')
                        /\ UNCHANGED printed
  /\ UNCHANGED <<technicians, technician_display, technician_full, first_name, queue_name, base_queue,
                 bare_queue, popup_name, server, manufacturer,
                 filtered_drivers, selected_driver, driver_filename,
                 sanitized_driver_filename, volume_name, dmg_path, overwrite,
                 dialogs, confirm_stdout, disk, fs0, fn>>

\* lines 123-130
ListDrivers ==
  /\ pc = "listdir"
  /\ \E dir \in ResourceDirs :
       IF dir = Unlistable
         THEN /\ pc' = "done"
              /\ printed' = "Could not list printer drivers"
              /\ UNCHANGED <<resources, ppd_files, manufacturers>>
         ELSE /\ resources' = dir
              /\ ppd_files' = Sorted({ f \in dir : CatalogAccepts(f) })
              /\ IF \E f \in Range(ppd_files') : extract_manufacturer(f) = IndexError
                   THEN /\ pc' = "done"
                        /\ printed' = "IndexError"
                        /\ UNCHANGED manufacturers
                   ELSE /\ pc' = "manufacturer"
                        /\ manufacturers' = Manufacturers(ppd_files')
                        /\ UNCHANGED printed
  /\ UNCHANGED <<technicians, technician_display, technician_full, first_name, queue_name, base_queue,
                 bare_queue, popup_name, server, manufacturer,
                 filtered_drivers, selected_driver, driver_filename,
                 sanitized_driver_filename, volume_name, dmg_path, overwrite,
                 dialogs, confirm_stdout, disk, fs0, fn>>

\* f[:-3]
DropGz(f) == Slice(f, 1, Len(f) - 3)

\* the drivers of every manufacturer whose name begins like the chosen one
filter_drivers_prefix(files, chosen) ==
  LET kept == SelectSeq(files, LAMBDA f : StartsWith(extract_manufacturer(f), chosen))
  IN [i \in DOMAIN kept |-> DropGz(kept[i])]

\* line 136
filter_drivers(files, chosen) ==
  LET kept == SelectSeq(files, LAMBDA f : extract_manufacturer(f) = chosen)
  IN [i \in DOMAIN kept |-> DropGz(kept[i])]

\* lines 131-136
Manufacturer ==
  /\ pc = "manufacturer"
  /\ \E ls \in ListStdouts(manufacturers), ds \in DialogStdouts(ManufacturerTexts) :
       /\ manufacturer' = prompt_with_list_or_custom(ls, ds)
       /\ dialogs' = dialogs \o Presented("Manufacturer", ls)
  /\ IF ~Truthy(manufacturer')
       THEN /\ pc' = "done"
            /\ printed' = "No manufacturer selected or entered."
            /\ UNCHANGED filtered_drivers
       ELSE /\ pc' = "driver"
            /\ filtered_drivers' = filter_drivers(ppd_files, manufacturer')
            /\ UNCHANGED printed
  /\ UNCHANGED <<technicians, technician_display, technician_full, first_name, queue_name, base_queue,
                 bare_queue, popup_name, server, resources, ppd_files,
                 manufacturers, selected_driver, driver_filename,
                 sanitized_driver_filename, volume_name, dmg_path, overwrite,
                 confirm_stdout, disk, fs0, fn>>

\* the check made on the later selections only
AllSelectedButTechnician(tech, queue, popup, driver, srv) ==
  Truthy(queue) /\ Truthy(popup) /\ Truthy(driver) /\ Truthy(srv)

\* line 143: all([technician_full, queue_name, popup_name, selected_driver, server])
AllSelected(tech, queue, popup, driver, srv) ==
  Truthy(tech) /\ Truthy(queue) /\ Truthy(popup) /\ Truthy(driver) /\ Truthy(srv)

\* lines 148-150
DriverNames(driver) ==
  [driver_filename |-> DriverFilename(driver),
   sanitized_driver_filename |-> Sanitize(DriverFilename(driver))]

\* lines 137-150
Driver ==
  /\ pc = "driver"
  /\ \E ls \in ListStdouts(filtered_drivers), ds \in DialogStdouts(DriverTexts) :
       /\ selected_driver' = prompt_with_list_or_custom(ls, ds)
       /\ dialogs' = dialogs \o Presented("Driver", ls)
  /\ IF ~Truthy(selected_driver')
       THEN /\ pc' = "done"
            /\ printed' = "No driver selected or entered."
            /\ UNCHANGED <<driver_filename, sanitized_driver_filename>>
       ELSE IF ~AllSelected(technician_full, queue_name, popup_name,
                            selected_driver', server)
       THEN /\ pc' = "done"
            /\ printed' = "Operation cancelled or incomplete selection."
            /\ UNCHANGED <<driver_filename, sanitized_driver_filename>>
       ELSE /\ pc' = "mktemp"
            /\ driver_filename' = DriverNames(selected_driver').driver_filename
            /\ sanitized_driver_filename' =
                 DriverNames(selected_driver').sanitized_driver_filename
            /\ UNCHANGED printed
  /\ UNCHANGED <<technicians, technician_display, technician_full, first_name, queue_name, base_queue,
                 bare_queue, popup_name, server, resources, ppd_files,
                 manufacturers, manufacturer, filtered_drivers, volume_name,
                 dmg_path, overwrite, confirm_stdout, disk, fs0, fn>>

\* lines 153-160: rmtree of an existing temp_dir, then makedirs
MakeTemp ==
  /\ pc = "mktemp"
  /\ volume_name' = base_queue
  /\ IF TempExists(volume_name')
       THEN /\ tmpDirs' = RmTreeDirs(volume_name') \cup {volume_name'}
            /\ tmpFiles' = RmTreeFiles(volume_name')
       ELSE /\ tmpDirs' = tmpDirs \cup {volume_name'}
            /\ UNCHANGED tmpFiles
  /\ pc' = "gunzip"
  /\ UNCHANGED <<technicians, technician_display, technician_full, first_name, queue_name, base_queue,
                 bare_queue, popup_name, server, resources, ppd_files,
                 manufacturers, manufacturer, filtered_drivers,
                 selected_driver, driver_filename, sanitized_driver_filename,
                 dmg_path, overwrite, dialogs, printed, dmgFiles,
                 hdiutilCalls, confirm_stdout, fs0, fn>>

\* line 163: the file gunzip reads
SourcePpdGz == selected_driver \o DotGz

\* line 164: the name of the file opened in Custom
DestinationPpd == sanitized_driver_filename

\* a decompression step that reports the failure and goes on to the copy
DecompressContinues ==
  /\ pc = "gunzip"
  /\ \E ok \in { b \in BOOLEAN : b => SourcePpdGz \in resources } :
       IF ok
         THEN /\ tmpFiles' = WriteFile(tmpFiles, volume_name, "Custom", DestinationPpd,
                                       << <<"P","P","D"," ">> \o SourcePpdGz >>)
              /\ UNCHANGED printed
         ELSE /\ tmpFiles' = WriteFile(tmpFiles, volume_name, "Custom", DestinationPpd, <<>>)
              /\ printed' = "Could not decompress PPD"
  /\ pc' = "copy"
  /\ UNCHANGED <<locals, dialogs, tmpDirs, dmgFiles, hdiutilCalls, confirm_stdout, fs0, fn>>

\* lines 163-170: open(destination, "wb") creates the file, then gunzip -c
\* fills it or fails (source missing or corrupt)
Decompress ==
  /\ pc = "gunzip"
  /\ \E ok \in { b \in BOOLEAN : b => SourcePpdGz \in resources } :
       IF ok
         THEN /\ tmpFiles' = WriteFile(tmpFiles, volume_name, "Custom", DestinationPpd,
                                       << <<"P","P","D"," ">> \o SourcePpdGz >>)
              /\ pc' = "copy"
              /\ UNCHANGED printed
         ELSE /\ tmpFiles' = WriteFile(tmpFiles, volume_name, "Custom", DestinationPpd, <<>>)
              /\ pc' = "done"
              /\ printed' = "Could not decompress PPD"
  /\ UNCHANGED <<locals, dialogs, tmpDirs, dmgFiles, hdiutilCalls, confirm_stdout, fs0, fn>>

\* a copy step that removes the staged tree when the package is missing
CopyInstallerCleansUp ==
  /\ pc = "copy"
  /\ \E present \in BOOLEAN :
       IF present
         THEN /\ tmpFiles' = WriteFile(tmpFiles, volume_name, "", InstallerName,
                                       << <<"p","k","g">> >>)
              /\ tmpDirs' = tmpDirs
              /\ pc' = "write"
              /\ UNCHANGED printed
         ELSE /\ pc' = "done"
              /\ printed' = "Installer.pkg not found in ~/Downloads/PharosDMG"
              /\ tmpFiles' = RmTreeFiles(volume_name)
              /\ tmpDirs' = RmTreeDirs(volume_name)
  /\ UNCHANGED <<locals, dialogs, dmgFiles, hdiutilCalls, confirm_stdout, fs0, fn>>

\* a copy step that goes on without the package when it is missing
CopyInstallerOptional ==
  /\ pc = "copy"
  /\ \E present \in BOOLEAN :
       IF present
         THEN tmpFiles' = WriteFile(tmpFiles, volume_name, "", InstallerName,
                                    << <<"p","k","g">> >>)
         ELSE UNCHANGED tmpFiles
  /\ pc' = "write"
  /\ UNCHANGED <<locals, dialogs, printed, tmpDirs, dmgFiles, hdiutilCalls,
                 confirm_stdout, fs0, fn>>

\* lines 173-179
CopyInstaller ==
  /\ pc = "copy"
  /\ \E present \in BOOLEAN :
       IF present
         THEN /\ tmpFiles' = WriteFile(tmpFiles, volume_name, "", InstallerName,
                                       << <<"p","k","g">> >>)
              /\ pc' = "write"
              /\ UNCHANGED printed
         ELSE /\ pc' = "done"
              /\ printed' = "Installer.pkg not found in ~/Downloads/PharosDMG"
              /\ UNCHANGED tmpFiles
  /\ UNCHANGED <<locals, dialogs, tmpDirs, dmgFiles, hdiutilCalls, confirm_stdout, fs0, fn>>

\* lines 185 and 192
Attribution == <<"#"," ">> \o technician_full \o <<" ","-","-"," ">> \o CurrentDate

\* lines 184-186
InstallFilesText ==
  << <<"#"," ","P","P","D"," ","f","i","l","e"," ","n","e","e","d"," ","t","o"," ","b","e"," ","c","o","p","i","e","d">>, <<"#">>, Attribution, <<"#">>,
     CupsPpdDir \o sanitized_driver_filename >>

\* the command naming the file before sanitization
LpadminLineUnsanitized ==
  <<"l","p","a","d","m","i","n"," ","-","p"," ">> \o popup_name \o <<" ","-","v"," ","p","o","p","u","p",":","/","/">> \o server \o <<"/">>
    \o base_queue \o <<" ","-","E"," ","-","P"," ">> \o driver_filename

\* the command with the bare queue in the URI
LpadminLineBareUri ==
  <<"l","p","a","d","m","i","n"," ","-","p"," ">> \o popup_name \o <<" ","-","v"," ","p","o","p","u","p",":","/","/">> \o server \o <<"/">>
    \o bare_queue \o <<" ","-","E"," ","-","P"," ">> \o sanitized_driver_filename

\* line 193
LpadminLine ==
  <<"l","p","a","d","m","i","n"," ","-","p"," ">> \o popup_name \o <<" ","-","v"," ","p","o","p","u","p",":","/","/">> \o server \o <<"/">>
    \o base_queue \o <<" ","-","E"," ","-","P"," ">> \o sanitized_driver_filename

\* lines 191-193
PostInstallText ==
  << <<"#"," ","I","n","s","t","a","l","l"," ","p","r","i","n","t"," ","q","u","e","u","e"," ","i","n"," ","C","U","P","S">>, <<"#">>, Attribution, <<"#">>, LpadminLine >>

\* lines 182-200: both files written, then the output path looked up
WriteArtifacts ==
  /\ pc = "write"
  /\ tmpFiles' = WriteFile(
                   WriteFile(tmpFiles, volume_name, "Custom", InstallFilesName,
                             InstallFilesText),
                   volume_name, "Custom", PostInstallName, PostInstallText)
  /\ dmg_path' = DmgName(queue_name)
  /\ pc' = IF dmg_path' \in DOMAIN dmgFiles THEN "overwrite" ELSE "hdiutil"
  /\ UNCHANGED <<technicians, technician_display, technician_full, first_name, queue_name, base_queue,
                 bare_queue, popup_name, server, resources, ppd_files,
                 manufacturers, manufacturer, filtered_drivers,
                 selected_driver, driver_filename, sanitized_driver_filename,
                 volume_name, overwrite, dialogs, printed, tmpDirs, dmgFiles,
                 hdiutilCalls, confirm_stdout, fs0, fn>>

\* lines 201-204
Overwrite ==
  /\ pc = "overwrite"
  /\ \E stdout \in {ButtonYes, ButtonNo, <<>>} :
       /\ confirm_stdout' = stdout
       /\ overwrite' = PyBool(prompt_yes_no(stdout))
  /\ dialogs' = Append(dialogs, "Overwrite DMG")
  /\ IF overwrite' = PyBool(FALSE)
       THEN pc' = "done" /\ printed' = "Operation cancelled by user."
       ELSE pc' = "hdiutil" /\ UNCHANGED printed
  /\ UNCHANGED <<technicians, technician_display, technician_full, first_name, queue_name, base_queue,
                 bare_queue, popup_name, server, resources, ppd_files,
                 manufacturers, manufacturer, filtered_drivers,
                 selected_driver, driver_filename, sanitized_driver_filename,
                 volume_name, dmg_path, disk, fs0, fn>>

\* lines 206-214: hdiutil create -volname .. -srcfolder .. -ov .. dmg_path;
\* a failing run may leave the output file as it was or broken
Hdiutil ==
  /\ pc = "hdiutil"
  /\ hdiutilCalls' = Append(hdiutilCalls,
                            [volname |-> volume_name, srcfolder |-> volume_name,
                             output |-> dmg_path, tree |-> Tree(volume_name)])
  /\ \E result \in {"new", "partial", "untouched"} :
       /\ dmgFiles' = IF result = "untouched" THEN dmgFiles
                      ELSE (dmg_path :> result) @@ dmgFiles
       /\ printed' = IF result = "new" THEN "DMG created" ELSE "Failed to create DMG"
  /\ pc' = "done"
  /\ UNCHANGED <<locals, dialogs, tmpDirs, tmpFiles, confirm_stdout, fs0, fn>>

Next ==
  \/ Technician \/ Acknowledge \/ Queue \/ Server \/ ListDrivers
  \/ Manufacturer \/ Driver \/ MakeTemp \/ Decompress \/ CopyInstaller
  \/ WriteArtifacts \/ Overwrite \/ Hdiutil

Spec == Init /\ [][Next]_vars

(* ------------------------------------------------------------------ *)
(* The helper functions applied on their own to bounded inputs         *)
(* ------------------------------------------------------------------ *)

MaxQueueBody == 4
MaxDriverBody == 4
MaxStem == 4

\* the strings over alphabet of length at most n
Strings(alphabet, n) == UNION { [1..k -> alphabet] : k \in 0..n }

\* what a prompt can return and main() lets through: stripped, not empty
Selectable(x) == x # <<>> /\ Strip(x) = x

QueueInputs ==
  { x \in { p \o b \o e :
              p \in { <<>>, YesAuth, <<"y","e","s","a","u","t","h">>, <<"X","Y","e","s","A","u","t","h">> },
              b \in Strings({"-", "_", "A", "1"}, MaxQueueBody),
              e \in { <<>>, <<".","d","m","g">>, <<".","D","m","G">>, <<".","d","m","g",".","d","m","g">> } } :
      Selectable(x) } \cup KnownQueues

DriverInputs ==
  { x \in { b \o e :
              b \in Strings({" ", "_", "a", "."}, MaxDriverBody),
              e \in { <<>>, <<".","p","p","d">>, <<".","P","P","D">>, <<".","p","p">> } } :
      Selectable(x) }

\* directory entries the catalog scan accepts
CatalogInputs ==
  { x \in { b \o e :
              b \in Strings({"H", "P", "a", " ", "_"}, MaxStem),
              e \in { <<".","g","z">>, <<".","p","p","d",".","g","z">>, <<".","P","P","D",".","g","z">>, <<".","g","z",".","g","z">> } } :
      CatalogAccepts(x) }

InitHelper(name, inputs) ==
  /\ pc = "off"
  /\ InitLocals
  /\ dialogs = <<>>
  /\ printed = ""
  /\ confirm_stdout = Unset
  /\ tmpDirs = {} /\ tmpFiles = {} /\ dmgFiles = [ n \in {} |-> "old" ]
  /\ hdiutilCalls = <<>>
  /\ fs0 = <<tmpDirs, tmpFiles, dmgFiles>>
  /\ fn_pc = name
  /\ fn_arg \in inputs
  /\ fn_res = <<>>

Returned(name, value) ==
  /\ fn_pc' = name
  /\ fn_res' = value
  /\ UNCHANGED <<pc, locals, dialogs, printed, confirm_stdout, disk, fs0, fn_arg>>

\* lines 110-112 on a queue name
ApplyQueueNames ==
  /\ fn_pc = "queue names"
  /\ Returned("queue names done", QueueNames(fn_arg))

\* lines 148-150 on a selected driver
ApplyDriverNames ==
  /\ fn_pc = "driver names"
  /\ Returned("driver names done", DriverNames(fn_arg))

\* extract_manufacturer on a catalog entry
ApplyManufacturer ==
  /\ fn_pc = "manufacturer"
  /\ Returned("manufacturer done", extract_manufacturer(fn_arg))

\* lines 154, 155 and 198 on a queue name: the volume name, the temp
\* directory and the name of the output file
OutputNames(queue) ==
  [volume_name |-> StripDmg(queue),
   temp_dir |-> <<"/","t","m","p","/">> \o StripDmg(queue),
   dmg_name |-> DmgName(queue)]

ApplyOutputNames ==
  /\ fn_pc = "output names"
  /\ Returned("output names done", OutputNames(fn_arg))

SpecQueueNames ==
  InitHelper("queue names", QueueInputs) /\ [][ApplyQueueNames]_vars

SpecDriverNames ==
  InitHelper("driver names", DriverInputs) /\ [][ApplyDriverNames]_vars

SpecManufacturer ==
  InitHelper("manufacturer", CatalogInputs) /\ [][ApplyManufacturer]_vars

SpecOutputNames ==
  InitHelper("output names", QueueInputs) /\ [][ApplyOutputNames]_vars

(* ------------------------------------------------------------------ *)
(* Properties                                                          *)
(* ------------------------------------------------------------------ *)

\* a selection that was asked for and came back cancelled or empty
Cancelled(v) == v # Unset /\ ~Truthy(v)

\* a selection that was asked for and made
Selected(v) == v # Unset /\ Truthy(v)

TechnicianCancelled == Cancelled(technician_full)

AnyCancelled ==
  \/ Cancelled(technician_full) \/ Cancelled(queue_name) \/ Cancelled(server)
  \/ Cancelled(manufacturer) \/ Cancelled(selected_driver)

StagingPositions == {"mktemp", "gunzip", "copy", "write", "overwrite", "hdiutil"}

DiskUntouched == <<tmpDirs, tmpFiles, dmgFiles>> = fs0 /\ hdiutilCalls = <<>>

\* C1: in a run where one of the five selections came back cancelled or
\* empty, the staging steps are never entered: /tmp and the output directory
\* stay as they were when the run started and hdiutil is not invoked.
C1_AbortLeavesDiskUntouched ==
  AnyCancelled => DiskUntouched /\ pc \notin StagingPositions

\* the technician dialog was cancelled, the four later selections were made,
\* and the run ended at the check of line 143
C1_Witness ==
  /\ pc = "done"
  /\ TechnicianCancelled
  /\ Selected(queue_name) /\ Selected(server) /\ Selected(manufacturer)
  /\ Selected(selected_driver)
  /\ printed = "Operation cancelled or incomplete selection."

\* C2: once a selection has come back cancelled or empty, no further dialog
\* is presented in the run.
C2_NoDialogAfterCancel == [][AnyCancelled => dialogs' = dialogs]_vars

DmgBefore == fs0[3]

OperatorSaidYes == confirm_stdout = ButtonYes

\* C3: hdiutil is invoked at most once, and only when no file existed at the
\* output path or the operator answered yes to the overwrite dialog; a file
\* that existed in the output directory differs from what it was only in a
\* run where the operator answered yes, and then it is the file at dmg_path.
C3_OverwriteOnlyOnYes ==
  /\ Len(hdiutilCalls) <= 1
  /\ hdiutilCalls # <<>> =>
       (hdiutilCalls[1].output \notin DOMAIN DmgBefore \/ OperatorSaidYes)
  /\ \A n \in DOMAIN DmgBefore :
       (n \notin DOMAIN dmgFiles \/ dmgFiles[n] # DmgBefore[n]) =>
         OperatorSaidYes /\ dmg_path = n

\* the output file existed, the operator declined, the run ended with the
\* file as it was and hdiutil not invoked
C3_Witness ==
  /\ pc = "done"
  /\ dmg_path # Unset
  /\ dmg_path \in DOMAIN DmgBefore
  /\ confirm_stdout = ButtonNo
  /\ hdiutilCalls = <<>>
  /\ dmgFiles = DmgBefore

\* the generated files have been written in this run
ArtifactsWritten == dmg_path # Unset

CustomFile(name) ==
  { f \in tmpFiles : f.dir = volume_name /\ f.sub = "Custom" /\ f.name = name }

\* the last line of a written file
LastLine(f) == f.content[Len(f.content)]

\* the part of s after the last occurrence of pat (s itself without one)
AfterLast(s, pat) ==
  LET at == { i \in 1..Len(s) : OccursAt(s, pat, i) }
  IN IF at = {} THEN s ELSE Slice(s, Max(at) + Len(pat), Len(s))

\* the part of s after its leading pat
AfterPrefix(s, pat) == Slice(s, Len(pat) + 1, Len(s))

DashP == <<" ","-","P"," ">>

\* C4: once the generated files are written, the file name in the
\* /etc/cups/ppd/ path of InstallFiles.txt, the file name after -P in the
\* lpadmin line of PostInstall.sh and the name of the decompressed PPD in
\* Custom are one string, the selected driver's name with .ppd appended when
\* missing and its spaces removed.
C4_OneDriverFilename ==
  ArtifactsWritten =>
    \E i \in CustomFile(InstallFilesName), s \in CustomFile(PostInstallName) :
      LET listed == AfterPrefix(LastLine(i), CupsPpdDir)
          installed == AfterLast(LastLine(s), DashP)
      IN /\ StartsWith(LastLine(i), CupsPpdDir)
         /\ listed = installed
         /\ \E d \in CustomFile(listed) :
              d.content = << <<"P","P","D"," ">> \o selected_driver \o DotGz >>
         /\ listed = SelectSeq(IF EndsWith(Lower(selected_driver), DotPpd)
                                 THEN selected_driver
                                 ELSE selected_driver \o DotPpd,
                               LAMBDA c : c # " ")

\* a driver whose name holds spaces was selected and the files were written
C4_Witness ==
  /\ ArtifactsWritten
  /\ selected_driver = <<"H","P"," ","L","a","s","e","r","J","e","t"," ","6","0","0">>
  /\ \E d \in CustomFile(<<"H","P","L","a","s","e","r","J","e","t","6","0","0",".","p","p","d">>) : d.content # <<>>
  /\ CustomFile(InstallFilesName) # {}
  /\ CustomFile(PostInstallName) # {}

\* the queue name with one trailing .dmg, in any case, removed
ExpectedBase(q) ==
  IF Len(q) >= 4 /\ Lower(Slice(q, Len(q) - 3, Len(q))) = DotDmg
    THEN Slice(q, 1, Len(q) - 4)
    ELSE q

\* positions i of base that hold the second separator of
\* YesAuth <sep> unit <sep> rest, unit and rest not empty, unit without separator
SecondSeparator(base) ==
  { i \in 10..(Len(base) - 1) :
      /\ Slice(base, 1, 7) = YesAuth
      /\ base[8] \in {"-", "_"}
      /\ \A j \in 9..(i - 1) : base[j] \notin {"-", "_"}
      /\ base[i] \in {"-", "_"} }

\* the bare queue the derivation rule gives for a base queue
ExpectedBare(base) ==
  IF SecondSeparator(base) = {} THEN base
  ELSE LET i == CHOOSE i \in SecondSeparator(base) : TRUE
       IN Slice(base, i + 1, Len(base))

\* C5: the last line written to PostInstall.sh is
\* lpadmin -p <bareQueue>_Popup -v popup://<server>/<baseQueue> -E -P <name>,
\* baseQueue being the queue name less a trailing .dmg (YesAuth prefix kept),
\* bareQueue the base queue less its YesAuth/unit prefix, server the selected
\* server and name the sanitized driver file name.
C5_LpadminLine ==
  ArtifactsWritten =>
    \E s \in CustomFile(PostInstallName) :
      LastLine(s) =
        <<"l","p","a","d","m","i","n"," ","-","p"," ">> \o ExpectedBare(ExpectedBase(queue_name)) \o <<"_","P","o","p","u","p">>
          \o <<" ","-","v"," ","p","o","p","u","p",":","/","/">> \o server \o <<"/">> \o ExpectedBase(queue_name)
          \o <<" ","-","E"," ","-","P"," ">>
          \o SelectSeq(IF EndsWith(Lower(selected_driver), DotPpd)
                         THEN selected_driver
                         ELSE selected_driver \o DotPpd,
                       LAMBDA c : c # " ")

\* a prefixed queue with a .DMG suffix went through to the written script
C5_Witness ==
  /\ ArtifactsWritten
  /\ queue_name = <<"Y","e","s","A","u","t","h","_","L","I","B","_","2","-","N",".","D","M","G">>
  /\ popup_name = <<"2","-","N","_","P","o","p","u","p">>
  /\ CustomFile(PostInstallName) # {}

\* C6: a queue name whose base queue does not begin with YesAuth has the
\* base queue as its bare queue and base queue + _Popup as its popup name.
C6_NoPrefixRoundTrip ==
  fn_pc = "queue names done" =>
    (~StartsWith(ExpectedBase(fn_arg), YesAuth) =>
       /\ fn_res.base_queue = ExpectedBase(fn_arg)
       /\ fn_res.bare_queue = ExpectedBase(fn_arg)
       /\ fn_res.popup_name = ExpectedBase(fn_arg) \o <<"_","P","o","p","u","p">>)

\* scenario B: PRINTQ1.dmg
C6_Witness ==
  /\ fn_pc = "queue names done"
  /\ fn_arg = <<"P","R","I","N","T","Q","1",".","d","m","g">>
  /\ fn_res = [base_queue |-> <<"P","R","I","N","T","Q","1">>, bare_queue |-> <<"P","R","I","N","T","Q","1">>,
               popup_name |-> <<"P","R","I","N","T","Q","1","_","P","o","p","u","p">>]

\* C7: for a base queue YesAuth <sep> unit <sep> rest, with unit not empty
\* and free of separators and rest not empty, the bare queue is rest: all
\* that follows the second separator, further separators included.
C7_SplitAtSecondSeparator ==
  fn_pc = "queue names done" =>
    \A i \in SecondSeparator(ExpectedBase(fn_arg)) :
      fn_res.bare_queue =
        Slice(ExpectedBase(fn_arg), i + 1, Len(ExpectedBase(fn_arg)))

\* a rest that itself holds a separator is kept whole
C7_Witness ==
  /\ fn_pc = "queue names done"
  /\ fn_arg = <<"Y","e","s","A","u","t","h","_","L","I","B","_","2","-","N",".","D","M","G">>
  /\ fn_res.bare_queue = <<"2","-","N">>

\* C8: for every directory entry the catalog scan accepts,
\* extract_manufacturer returns a non-empty string and does not raise.
C8_ManufacturerTotal ==
  fn_pc = "manufacturer done" => fn_res # IndexError /\ fn_res # <<>>

\* the catalog entries of the scanned directory
Catalog == { f \in resources : EndsWith(f, DotGz) }

OfManufacturer(m) == { f \in Catalog : extract_manufacturer(f) = m }

StrictlySorted(q) == \A i \in 1..(Len(q) - 1) : LessStr(q[i], q[i + 1])

\* C9: when the driver dialog is reached, its options are the catalog
\* entries whose extracted manufacturer is the chosen one, each without its
\* .gz suffix, none missing and none added, and the manufacturer options
\* were the sorted, duplicate-free extracted manufacturers of the catalog.
C9_DriverOptions ==
  pc = "driver" =>
    /\ { d \o DotGz : d \in Range(filtered_drivers) } = OfManufacturer(manufacturer)
    /\ Len(filtered_drivers) = Cardinality(OfManufacturer(manufacturer))
    /\ Range(manufacturers) = { extract_manufacturer(f) : f \in Catalog }
    /\ StrictlySorted(manufacturers)

\* HP chosen from a catalog that also holds Epson and HPcolorL drivers
C9_Witness ==
  /\ pc = "driver"
  /\ manufacturer = <<"H","P">>
  /\ filtered_drivers = << <<"H","P"," ","L","a","s","e","r","J","e","t"," ","6","0","0">>, <<"H","P","_","L","a","s","e","r","J","e","t","_","P","r","o",".","p","p","d">> >>
  /\ manufacturers = << <<"E","p","s","o","n">>, <<"H","P">>, <<"H","P","c","o","l","o","r","L">> >>

\* C10: the driver file name is the selected name, with .ppd appended unless
\* it ends in .ppd in any case; the sanitized name is that name with its
\* spaces deleted and every other character kept in order, so it holds no
\* space and is shorter by the number of spaces.
C10_SanitizeRemovesOnlySpaces ==
  fn_pc = "driver names done" =>
    LET named == IF Len(fn_arg) >= 4
                      /\ Lower(Slice(fn_arg, Len(fn_arg) - 3, Len(fn_arg))) = DotPpd
                   THEN fn_arg ELSE fn_arg \o DotPpd
        clean == fn_res.sanitized_driver_filename
    IN /\ fn_res.driver_filename = named
       /\ \A i \in DOMAIN clean : clean[i] # " "
       /\ Len(clean) = Len(named) - Count(named, " ")
       /\ clean = SelectSeq(named, LAMBDA c : c # " ")

\* a name with a space and an underscore: only the space goes
C10_Witness ==
  /\ fn_pc = "driver names done"
  /\ fn_arg = <<"a"," ","_","a">>
  /\ fn_res.sanitized_driver_filename = <<"a","_","a",".","p","p","d">>

\* the files one run stages under /tmp/volume_name
StagedNames ==
  { <<"Custom", sanitized_driver_filename>>, <<"Custom", InstallFilesName>>,
    <<"Custom", PostInstallName>>, <<"", InstallerName>> }

\* the files that lay under /tmp when the run started
TmpFilesBefore == fs0[2]

\* C11: the tree handed to hdiutil holds exactly the four files this run
\* wrote (the PPD, InstallFiles.txt and PostInstall.sh in Custom, and
\* Installer.pkg at the root); no file that lay under /tmp before the run is
\* in it.
C11_FreshStagingTree ==
  \A i \in DOMAIN hdiutilCalls :
    LET tree == hdiutilCalls[i].tree
    IN /\ tree \cap TmpFilesBefore = {}
       /\ { <<f.sub, f.name>> : f \in tree } = StagedNames
       /\ Cardinality(tree) = Cardinality(StagedNames)
       /\ \A f \in tree : f.dir = volume_name /\ f.content # StaleFile(f.dir).content

\* an earlier run left a file in /tmp/volume_name, and this run went through
\* to hdiutil
C11_Witness ==
  /\ hdiutilCalls # <<>>
  /\ \E f \in TmpFilesBefore : f.dir = volume_name

\* the files of /tmp/volume_name outside Custom
RootFile(name) ==
  { f \in tmpFiles : f.dir = volume_name /\ f.sub = "" /\ f.name = name }

InstallerMissing == printed = "Installer.pkg not found in ~/Downloads/PharosDMG"

DecompressFailed == printed = "Could not decompress PPD"

\* C12: a run that reports the missing Installer.pkg has ended; it does not
\* report the decompression error; /tmp/volume_name is still there with the
\* decompressed PPD in Custom; InstallFiles.txt, PostInstall.sh and
\* Installer.pkg are not in it, and hdiutil was not invoked.
C12_MissingInstaller ==
  InstallerMissing =>
    /\ pc = "done"
    /\ ~DecompressFailed
    /\ volume_name \in tmpDirs
    /\ \E f \in CustomFile(sanitized_driver_filename) : f.content # <<>>
    /\ CustomFile(InstallFilesName) = {}
    /\ CustomFile(PostInstallName) = {}
    /\ RootFile(InstallerName) = {}
    /\ dmg_path = Unset
    /\ hdiutilCalls = <<>>
    /\ dmgFiles = DmgBefore

\* the package was missing in a run whose temp directory replaced a stale one
C12_Witness ==
  /\ InstallerMissing
  /\ \E f \in TmpFilesBefore : f.dir = volume_name
  /\ Tree(volume_name) = CustomFile(sanitized_driver_filename)

\* the run is past the decompression step
PastDecompress == volume_name # Unset /\ pc # "gunzip"

\* C13: a run that reports the decompression error has ended without copying
\* Installer.pkg, without writing InstallFiles.txt or PostInstall.sh and
\* without invoking hdiutil, and the output directory is as it was; a run
\* goes past the decompression step without that error only when the file
\* <selected_driver>.gz is in the driver directory.
C13_DecompressFailure ==
  /\ DecompressFailed =>
       /\ pc = "done"
       /\ RootFile(InstallerName) = {}
       /\ CustomFile(InstallFilesName) = {}
       /\ CustomFile(PostInstallName) = {}
       /\ dmg_path = Unset
       /\ hdiutilCalls = <<>>
       /\ dmgFiles = DmgBefore
  /\ (PastDecompress /\ ~DecompressFailed) => SourcePpdGz \in resources

\* a driver typed in free text that names no file of the driver directory
\* failed to decompress
C13_Witness ==
  /\ DecompressFailed
  /\ selected_driver = <<"M","y"," ","D","r","i","v","e","r","_","v","2",".","P","P","D">>
  /\ SourcePpdGz \notin resources
  /\ CustomFile(sanitized_driver_filename) # {}

ListFailed == printed = "Could not list printer drivers"

\* the dialogs of the manufacturer and driver steps
CatalogDialogs ==
  { "Manufacturer", "Manufacturer:custom", "Driver", "Driver:custom" }

\* C14: a run that reports that the driver directory could not be listed has
\* ended; no manufacturer or driver dialog was presented in it, /tmp and the
\* output directory are as they were when it started, and hdiutil was not
\* invoked.
C14_ListFailure ==
  ListFailed =>
    /\ pc = "done"
    /\ Range(dialogs) \cap CatalogDialogs = {}
    /\ manufacturer = Unset /\ selected_driver = Unset
    /\ volume_name = Unset /\ dmg_path = Unset
    /\ DiskUntouched

\* the listing failed after technician, queue and server had been chosen
C14_Witness ==
  /\ ListFailed
  /\ Selected(technician_full) /\ Selected(queue_name) /\ Selected(server)
  /\ "Server" \in Range(dialogs)

AckTitle == "Driver Installation Required"

TechnicianTitles == { "Technician", "Technician:custom" }

\* the positions in the dialog history of the dialogs with a title of titles
Positions(titles) == { i \in DOMAIN dialogs : dialogs[i] \in titles }

\* the name the acknowledgement is to greet: the text after the comma of a
\* value with one, stripped, otherwise the first whitespace-delimited token
AddressedName(t) ==
  IF HasComma(t)
    THEN Strip(Slice(t, FindFirst(t, <<",">>) + 1, Len(t)))
    ELSE FirstToken(t)

\* C15: before the technician step has resolved, and in a run where it came
\* back cancelled or empty, no acknowledgement dialog is presented; in a run
\* where it resolved to a non-empty value, once the acknowledgement step is
\* over exactly one acknowledgement dialog has been presented, after the
\* technician dialogs and before every later dialog, and it greets the text
\* after the comma of a 'Last, First' value or else the first
\* whitespace-delimited token.
C15_Acknowledgement ==
  LET acks == Positions({AckTitle})
      before == Positions(TechnicianTitles)
      after == DOMAIN dialogs \ (acks \cup before)
  IN /\ (technician_full = Unset \/ Cancelled(technician_full)) => acks = {}
     /\ pc = "ack" => acks = {} /\ after = {}
     /\ (Selected(technician_full) /\ pc # "ack") =>
          /\ Cardinality(acks) = 1
          /\ \A a \in acks :
               /\ \A i \in before : i < a
               /\ \A i \in after : a < i
          /\ first_name = AddressedName(technician_full)

\* the catalog entry 'Lee, Ann' was chosen, the acknowledgement greeted Ann,
\* and the queue dialog followed
C15_Witness ==
  /\ technician_full = <<"L","e","e",","," ","A","n","n">>
  /\ first_name = <<"A","n","n">>
  /\ Positions({AckTitle}) # {}
  /\ Positions({"Queue"}) # {}

OverwriteTitle == "Overwrite DMG"

\* the place of a dialog in the order technician, queue, server,
\* manufacturer, driver, overwrite confirmation
StepOf(title) ==
  CASE title \in TechnicianTitles \cup {AckTitle} -> 1
    [] title \in {"Queue", "Queue:custom"} -> 2
    [] title \in {"Server", "Server:custom"} -> 3
    [] title \in {"Manufacturer", "Manufacturer:custom"} -> 4
    [] title \in {"Driver", "Driver:custom"} -> 5
    [] title = OverwriteTitle -> 6

ListTitles == { "Technician", "Queue", "Server", "Manufacturer", "Driver" }

\* the dialogs were presented in the fixed order, none of them twice
InFixedOrder ==
  \A i, j \in DOMAIN dialogs :
    i < j => StepOf(dialogs[i]) <= StepOf(dialogs[j]) /\ dialogs[i] # dialogs[j]

\* staging has begun only with the five prompts presented and answered
StagingAfterPrompts ==
  (volume_name # Unset \/ pc \in StagingPositions) =>
    /\ ListTitles \subseteq Range(dialogs)
    /\ Selected(technician_full) /\ Selected(queue_name) /\ Selected(server)
    /\ Selected(manufacturer) /\ Selected(selected_driver)

\* the overwrite confirmation was presented only over a fully staged tree
OverwriteAfterStaging ==
  Positions({OverwriteTitle}) # {} =>
    { <<f.sub, f.name>> : f \in Tree(volume_name) } = StagedNames

\* what main() reports when it returns
Outcomes ==
  { "DMG created",
    "No queue/package selected or entered.", "No server selected or entered.",
    "No manufacturer selected or entered.", "No driver selected or entered.",
    "Operation cancelled or incomplete selection.",
    "Operation cancelled by user.",
    "Could not list printer drivers", "Could not decompress PPD",
    "Installer.pkg not found in ~/Downloads/PharosDMG", "Failed to create DMG" }

\* a run that is over ended by one of the returns of main()
EndsInOutcome == pc = "done" => printed \in Outcomes

\* C16: the dialogs of a run appear in the order technician, queue, server,
\* manufacturer, driver, none twice; staging begins only after the five
\* prompts were answered; the overwrite confirmation appears at most once
\* and only after staging; and a run that is over has ended in success, an
\* abort, a declined overwrite or a reported failure.
C16_SequentialRun ==
  /\ InFixedOrder
  /\ StagingAfterPrompts
  /\ OverwriteAfterStaging
  /\ EndsInOutcome

\* the four files as this run writes them
StagedFiles ==
  { [dir |-> volume_name, sub |-> "Custom", name |-> sanitized_driver_filename,
     content |-> << <<"P","P","D"," ">> \o SourcePpdGz >>],
    [dir |-> volume_name, sub |-> "Custom", name |-> InstallFilesName,
     content |-> InstallFilesText],
    [dir |-> volume_name, sub |-> "Custom", name |-> PostInstallName,
     content |-> PostInstallText],
    [dir |-> volume_name, sub |-> "", name |-> InstallerName,
     content |-> << <<"p","k","g">> >>] }

\* C17: when hdiutil is about to be invoked, and in every invocation made,
\* /tmp/volume_name holds Custom/<sanitized_driver_filename>,
\* Custom/InstallFiles.txt, Custom/PostInstall.sh and Installer.pkg with the
\* content this run wrote; hdiutil is given volume_name (the base queue) as
\* volume name and /tmp/volume_name as source folder.
C17_StagingComplete ==
  /\ pc = "hdiutil" => StagedFiles \subseteq Tree(volume_name)
  /\ \A i \in DOMAIN hdiutilCalls :
       /\ StagedFiles \subseteq hdiutilCalls[i].tree
       /\ hdiutilCalls[i].tree = Tree(hdiutilCalls[i].srcfolder)
       /\ hdiutilCalls[i].srcfolder = volume_name
       /\ hdiutilCalls[i].volname = volume_name
       /\ hdiutilCalls[i].volname = base_queue
       /\ hdiutilCalls[i].output = dmg_path

\* on a machine without leftovers hdiutil was invoked and built the image
C17_Witness ==
  /\ hdiutilCalls # <<>>
  /\ TmpFilesBefore = {}
  /\ dmg_path \in DOMAIN dmgFiles /\ dmgFiles[dmg_path] = "new"
  /\ hdiutilCalls[1].tree = StagedFiles

\* staging has begun: line 154 has named the temp directory
StagingBegun == volume_name # Unset

\* C18: whenever staging has begun, volume_name is a non-empty string, so
\* the directory removed and recreated is a child of /tmp and not /tmp
\* itself: what lay in the other directories of /tmp is still there.
C18_TempDirIsProperChild ==
  StagingBegun =>
    /\ volume_name # <<>>
    /\ \A f \in TmpFilesBefore : f.dir # volume_name => f \in tmpFiles
    /\ \A d \in fs0[1] : d \in tmpDirs

\* s ends in '.dmg' in whatever case
HasDmgSuffix(s) ==
  Len(s) >= 4 /\ Lower(Slice(s, Len(s) - 3, Len(s))) = <<".","d","m","g">>

\* C19: for every queue name, the output file is named by the queue name
\* itself when that ends in '.dmg' in whatever case and by the queue name
\* followed by '.dmg' otherwise; the name of the output file without its last
\* four characters, which are '.dmg' in some case, is the volume name, and
\* the temp directory is /tmp/<volume name>.
C19_OutputNameAgrees ==
  fn_pc = "output names done" =>
    LET out == fn_res.dmg_name
    IN /\ out = IF HasDmgSuffix(fn_arg) THEN fn_arg ELSE fn_arg \o <<".","d","m","g">>
       /\ HasDmgSuffix(out)
       /\ Slice(out, 1, Len(out) - 4) = fn_res.volume_name
       /\ fn_res.temp_dir = <<"/","t","m","p","/">> \o fn_res.volume_name

\* a queue name with the suffix in upper case: the output file keeps the
\* name, the volume name drops the suffix
C19_Witness ==
  /\ fn_pc = "output names done"
  /\ fn_arg = <<"Y","e","s","A","u","t","h","_","L","I","B","_","2","-","N",".","D","M","G">>
  /\ fn_res.dmg_name = fn_arg
  /\ fn_res.volume_name = <<"Y","e","s","A","u","t","h","_","L","I","B","_","2","-","N">>

\* the technician answer came from the free-text dialog
TechnicianTyped == Positions({"Technician:custom"}) # {}

\* the technician prompt returned a non-empty answer
TechnicianAnswered == technician_display # Unset /\ Truthy(technician_display)

\* a display form picked from the list resolves to the one catalog entry
\* that has it
PickResolvesToEntry ==
  (TechnicianAnswered /\ ~TechnicianTyped) =>
    /\ \E i \in DOMAIN technicians : Display(technicians[i]) = technician_display
    /\ \A i \in DOMAIN technicians :
         ( /\ Display(technicians[i]) = technician_display
           /\ \A j \in DOMAIN technicians \ {i} :
                Display(technicians[j]) # technician_display )
           => technician_full = technicians[i]

\* a free-text answer is the internal value as it was returned
TypedUsedVerbatim ==
  (TechnicianAnswered /\ TechnicianTyped) => technician_full = technician_display

\* the third line of both generated files names the internal value
AttributionNamesInternal ==
  ArtifactsWritten =>
    \A f \in CustomFile(InstallFilesName) \cup CustomFile(PostInstallName) :
      f.content[3] = <<"#"," ">> \o technician_full \o <<" ","-","-"," ">> \o CurrentDate

\* C20: choosing the display form of a catalog entry t ('First Last' for
\* 'Last, First', t itself without a comma) resolves the internal value to
\* t when no other entry has that display form; a free-text answer is the
\* internal value verbatim; the attribution lines of InstallFiles.txt and
\* PostInstall.sh carry the internal value.
C20_TechnicianResolution ==
  /\ PickResolvesToEntry
  /\ TypedUsedVerbatim
  /\ AttributionNamesInternal

====
